---- MODULE Spec2Model ----
(***************************************************************************)
(* AlloLLMEval: the test runner (core/test_runner.py) composing a prompt   *)
(* executor (core/base.py) and a metric evaluator (core/metrics.py).       *)
(*                                                                         *)
(* Python objects live in a heap: `dicts` holds the dict objects, `cfgs`   *)
(* the TestConfig objects; an address is an index, 0 is None.  A config    *)
(* value is a record: a scalar "a" is [scalar |-> "a"], a nested mapping   *)
(* {"x": "a"} is [x |-> "a"].  An optional value is a sequence of length   *)
(* at most one.                                                            *)
(***************************************************************************)
EXTENDS Integers, Sequences, FiniteSets, TLC

VARIABLES
    pc,                 \* position of the caller / of the run in progress
    self,               \* the TestRunner's attributes
    dicts,              \* heap: dict objects, by address
    cfgs,               \* heap: TestConfig objects, by address
    error,              \* the exception the last call ended with
    input_data,         \* run's arguments
    evaluation_params,
    override_config,
    effective_config,   \* run's local: address of the effective TestConfig
    base_output,        \* run's local: what execute returned
    result,             \* the TestResult the last call returned
    trace,              \* steps of the run in progress, in order
    execCalls,          \* what the executor saw: arguments of each execute call
    evalCalls,          \* what the evaluator saw: arguments of each evaluate call
    execRet,            \* what the executor did: the value it returned
    evalRet,            \* what the evaluator did: the MetricOutput it returned
    collabErr,          \* the exception a collaborator raised
    bound,              \* the runner as __init__ left it
    pre,                \* the heap as the caller passed it to the last merge
    later               \* an earlier run of this runner had an override

vars == <<pc, self, dicts, cfgs, error, input_data, evaluation_params,
          override_config, effective_config, base_output, result, trace,
          execCalls, evalCalls, execRet, evalRet, collabErr, bound, pre, later>>

---------------------------------------------------------------------------
\* Bounds of the model.

\* entries (executor_config plus metric_config) of a TestConfig, merge checks
MaxEntries == 2
\* entries of a TestConfig bound to or passed to a runner
MaxRunEntries == 1

---------------------------------------------------------------------------
\* Values the caller and the collaborators can supply.

Keys == {"model", "temperature"}

Scalar(s) == [scalar |-> s]

ConfigValues == {Scalar("a"), [x |-> "a"], [y |-> "a"]}

IsMapping(v) == "scalar" \notin DOMAIN v

EmptyDict == [k \in {} |-> Scalar("a")]

\* the values of the configs bound to and passed to a runner
RunValues == {Scalar("a"), [x |-> "a"]}

Dicts(values) == UNION {[S -> values] : S \in SUBSET Keys}

Size(d) == Cardinality(DOMAIN d)

ConfigsUpTo(n, values) ==
    {c \in [executor_config : Dicts(values), metric_config : Dicts(values)] :
        Size(c.executor_config) + Size(c.metric_config) <= n}

MergeConfigs == ConfigsUpTo(MaxEntries, ConfigValues)

RunConfigs == ConfigsUpTo(MaxRunEntries, RunValues)

Inputs == {"hello", "world"}

Outputs == {"ECHO:hello", "ECHO:world"}

ParamChoices == {<<>>, <<EmptyDict>>, <<[k \in {"n"} |-> Scalar("a")]>>}

\* objects a caller can hand to the constructor, by class
ExecutorArgs == {"EchoExecutor", "PromptExecutorBase", "ConstEvaluator"}

EvaluatorArgs == {"ConstEvaluator", "MetricEvaluatorBase", "EchoExecutor"}

NoError == [kind |-> "", msg |-> ""]

ExecutorErrors == {[kind |-> "RuntimeError", msg |-> "model endpoint failed"],
                   [kind |-> "TimeoutError", msg |-> "model endpoint timed out"]}

EvaluatorErrors == {[kind |-> "KeyError", msg |-> "reference"],
                    [kind |-> "RuntimeError", msg |-> "judge failed"]}

---------------------------------------------------------------------------
\* core/metrics.py

MetricStatus == {"passed", "warning", "failed", "inconclusive"}

\* scores in tenths: 10 is 1.0
Scores == {0, 10, 15}

MetricOutput == [score : Scores, status : MetricStatus]

\* what a concrete evaluator returns: every status, scores inside, on the edge
\* of and outside the documented range
EvaluatorOutputs ==
    {m \in MetricOutput :
        \/ m.status = "passed" /\ m.score = 10
        \/ m.status = "warning" /\ m.score = 15
        \/ m.status = "failed" /\ m.score = 0
        \/ m.status = "inconclusive" /\ m.score = 15}

---------------------------------------------------------------------------
\* core/test_runner.py: TestConfig, _merge_configs

TestConfig(ec, mc) == [executor_config |-> ec, metric_config |-> mc]

\* {**base, **override}
MergeDictBaseWins(base, override) ==
    [k \in DOMAIN base \cup DOMAIN override |->
        IF k \in DOMAIN base THEN base[k] ELSE override[k]]

MergeDict(base, override) ==
    [k \in DOMAIN base \cup DOMAIN override |->
        IF k \in DOMAIN override THEN override[k] ELSE base[k]]

\* The contents of the TestConfig at address c of heap h.
Contents(h, c) ==
    [executor_config |-> h.dicts[h.cfgs[c].executor_config],
     metric_config   |-> h.dicts[h.cfgs[c].metric_config]]

Heap == [dicts |-> dicts, cfgs |-> cfgs]

\* base.update(override) on the base's own dicts, the base returned
merge_configs_inplace(h, base_config, override_config_) ==
    IF override_config_ = 0
    THEN [dicts |-> h.dicts, cfgs |-> h.cfgs, ref |-> base_config]
    ELSE LET b == h.cfgs[base_config]
             o == h.cfgs[override_config_]
             d1 == [h.dicts EXCEPT ![b.executor_config] =
                        MergeDict(@, h.dicts[o.executor_config])]
             d2 == [d1 EXCEPT ![b.metric_config] =
                        MergeDict(@, d1[o.metric_config])]
         IN  [dicts |-> d2, cfgs |-> h.cfgs, ref |-> base_config]

\* an absent override yields an empty TestConfig
merge_configs_dropbase(h, base_config, override_config_) ==
    LET n == Len(h.dicts)
        b == h.cfgs[base_config]
        eo == IF override_config_ = 0 THEN EmptyDict
              ELSE h.dicts[h.cfgs[override_config_].executor_config]
        mo == IF override_config_ = 0 THEN EmptyDict
              ELSE h.dicts[h.cfgs[override_config_].metric_config]
        eb == IF override_config_ = 0 THEN EmptyDict ELSE h.dicts[b.executor_config]
        mb == IF override_config_ = 0 THEN EmptyDict ELSE h.dicts[b.metric_config]
    IN  [dicts |-> h.dicts \o <<MergeDict(eb, eo), MergeDict(mb, mo)>>,
         cfgs  |-> Append(h.cfgs, TestConfig(n + 1, n + 2)),
         ref   |-> Len(h.cfgs) + 1]

\* TestRunner._merge_configs: the heap after the call and the address returned.
\* A TestConfig instance is truthy (a dataclass defines neither __bool__ nor
\* __len__), so `not override_config` holds of None alone.
merge_configs(h, base_config, override_config_) ==
    IF override_config_ = 0
    THEN [dicts |-> h.dicts, cfgs |-> h.cfgs, ref |-> base_config]
    ELSE LET b == h.cfgs[base_config]
             o == h.cfgs[override_config_]
             n == Len(h.dicts)
             merged_executor_config ==
                 MergeDict(h.dicts[b.executor_config], h.dicts[o.executor_config])
             merged_metric_config ==
                 MergeDict(h.dicts[b.metric_config], h.dicts[o.metric_config])
         IN  [dicts |-> h.dicts \o <<merged_executor_config, merged_metric_config>>,
             cfgs  |-> Append(h.cfgs, TestConfig(n + 1, n + 2)),
             ref   |-> Len(h.cfgs) + 1]

\* The caller creates a TestConfig with contents c.
NewConfig(h, c) ==
    LET n == Len(h.dicts)
    IN  [dicts |-> h.dicts \o <<c.executor_config, c.metric_config>>,
         cfgs  |-> Append(h.cfgs, TestConfig(n + 1, n + 2)),
         ref   |-> Len(h.cfgs) + 1]

EmptyHeap == [dicts |-> <<>>, cfgs |-> <<>>]

---------------------------------------------------------------------------
\* Classes: core/base.py, core/metrics.py, core/test_runner.py

\* The classes an instance of cls is an instance of.
Mro(cls) ==
    CASE cls = "EchoExecutor"   -> {"EchoExecutor", "PromptExecutorBase", "object"}
      [] cls = "ConstEvaluator" -> {"ConstEvaluator", "MetricEvaluatorBase", "object"}
      [] OTHER                  -> {cls, "object"}

IsInstance(cls, expected) == expected \in Mro(cls)

ValueError(msg) == [kind |-> "ValueError", msg |-> msg]

\* the config's class is not checked
validate_components_noconfig(s) ==
    IF ~IsInstance(s.executor, "PromptExecutorBase")
    THEN ValueError("Executor must be an instance of PromptExecutorBase")
    ELSE IF ~IsInstance(s.evaluator, "MetricEvaluatorBase")
    THEN ValueError("Evaluator must be an instance of MetricEvaluatorBase")
    ELSE NoError

\* TestRunner._validate_components: the exception raised, NoError if none.
validate_components(s) ==
    IF ~IsInstance(s.executor, "PromptExecutorBase")
    THEN ValueError("Executor must be an instance of PromptExecutorBase")
    ELSE IF ~IsInstance(s.evaluator, "MetricEvaluatorBase")
    THEN ValueError("Evaluator must be an instance of MetricEvaluatorBase")
    ELSE IF ~IsInstance(s.config.cls, "TestConfig")
    THEN ValueError("Config must be an instance of TestConfig")
    ELSE NoError

\* TestRunner._get_metadata, less the timestamp
get_metadata(s) ==
    [executor_type |-> s.executor, evaluator_type |-> s.evaluator]

\* PromptExecutorBase.execute raises NotImplementedError unless overridden.
NotImplementedError == [kind |-> "NotImplementedError", msg |-> ""]

ExecuteOverridden(cls) == cls # "PromptExecutorBase"

EvaluateOverridden(cls) == cls # "MetricEvaluatorBase"

---------------------------------------------------------------------------
\* TestRunner.run, step by step

\* `evaluation_params or {}`
OrEmpty(params) ==
    IF params = <<>> THEN EmptyDict
    ELSE IF DOMAIN params[1] = {} THEN EmptyDict
    ELSE params[1]

\* the positional arguments of self.executor.execute
ExecuteArgs(h, inp, eff) ==
    [input_data |-> inp, config |-> h.cfgs[eff].executor_config]

\* base_output and input_data exchanged
EvaluateArgsSwapped(s, h, inp, out, eff, params) ==
    [executor          |-> s.executor,
     input_data        |-> out,
     base_output       |-> inp,
     executor_config   |-> h.cfgs[eff].executor_config,
     test_config       |-> h.cfgs[eff].metric_config,
     evaluation_params |-> OrEmpty(params)]

\* the keyword arguments of self.evaluator.evaluate
EvaluateArgs(s, h, inp, out, eff, params) ==
    [executor          |-> s.executor,
     input_data        |-> inp,
     base_output       |-> out,
     executor_config   |-> h.cfgs[eff].executor_config,
     test_config       |-> h.cfgs[eff].metric_config,
     evaluation_params |-> OrEmpty(params)]

\* configs_used is the runner's own config
MakeTestResultBaseConfig(s, inp, metric_result, out, eff) ==
    [metric_output   |-> metric_result,
     executor_output |-> out,
     configs_used    |-> s.config.ref,
     metadata        |-> get_metadata(s)]

\* executor_output is the run's input
MakeTestResultInput(s, inp, metric_result, out, eff) ==
    [metric_output   |-> metric_result,
     executor_output |-> inp,
     configs_used    |-> eff,
     metadata        |-> get_metadata(s)]

\* the TestResult run returns, less the timestamp
MakeTestResult(s, inp, metric_result, out, eff) ==
    [metric_output   |-> metric_result,
     executor_output |-> out,
     configs_used    |-> eff,
     metadata        |-> get_metadata(s)]

\* the exception is wrapped
OnRaiseWrapped(e) ==
    [pc |-> "raised", error |-> [kind |-> "RuntimeError", msg |-> e.kind]]

\* run has no try block: an exception of a collaborator ends the call.
OnRaise(e) ==
    [pc |-> "raised", error |-> e]

---------------------------------------------------------------------------
\* The caller's side of a call.

NoRunner == [executor |-> "", evaluator |-> "",
             config |-> [cls |-> "NoneType", ref |-> 0]]

EmptyConfig == TestConfig(EmptyDict, EmptyDict)

OverrideKinds == {"None", "self", "new"}

\* The override argument: None, the runner's own config object, or a
\* TestConfig the caller creates for the call.
PassOverride(h, base_config, kind, c) ==
    CASE kind = "None" -> [dicts |-> h.dicts, cfgs |-> h.cfgs, ref |-> 0]
      [] kind = "self" -> [dicts |-> h.dicts, cfgs |-> h.cfgs, ref |-> base_config]
      [] OTHER         -> NewConfig(h, c)

\* The config argument of the constructor: a TestConfig, a plain dict or None.
PassConfig(cls, c) ==
    CASE cls = "TestConfig" -> NewConfig(EmptyHeap, c)
      [] cls = "dict" -> [dicts |-> <<c.executor_config>>, cfgs |-> <<>>, ref |-> 1]
      [] OTHER -> [dicts |-> <<>>, cfgs |-> <<>>, ref |-> 0]

RunReset ==
    /\ base_output' = <<>>
    /\ result' = <<>>
    /\ execCalls' = <<>>
    /\ evalCalls' = <<>>
    /\ execRet' = <<>>
    /\ evalRet' = <<>>
    /\ collabErr' = <<>>

---------------------------------------------------------------------------
\* Actions

Init ==
    /\ pc = "new"
    /\ self = NoRunner
    /\ dicts = <<>>
    /\ cfgs = <<>>
    /\ error = NoError
    /\ input_data = ""
    /\ evaluation_params = <<>>
    /\ override_config = 0
    /\ effective_config = 0
    /\ base_output = <<>>
    /\ result = <<>>
    /\ trace = <<>>
    /\ execCalls = <<>>
    /\ evalCalls = <<>>
    /\ execRet = <<>>
    /\ evalRet = <<>>
    /\ collabErr = <<>>
    /\ bound = <<>>
    /\ pre = EmptyHeap
    /\ later = FALSE

\* TestRunner.__init__: the attributes are assigned, then validated; the caller
\* gets the runner only if validation raised nothing.
Construct(executor, evaluator, cls, c) ==
    /\ pc = "new"
    /\ cls # "TestConfig" => c = EmptyConfig
    /\ LET a == PassConfig(cls, c)
           s == [executor |-> executor, evaluator |-> evaluator,
                 config |-> [cls |-> cls, ref |-> a.ref]]
           e == validate_components(s)
       IN  /\ self' = s
           /\ dicts' = a.dicts
           /\ cfgs' = a.cfgs
           /\ error' = e
           /\ pc' = IF e = NoError THEN "idle" ELSE "rejected"
           /\ bound' = IF e = NoError
                       THEN <<[self |-> s, base |-> c]>>
                       ELSE <<>>
    /\ UNCHANGED <<input_data, evaluation_params, override_config,
                   effective_config, base_output, result, trace, execCalls,
                   evalCalls, execRet, evalRet, collabErr, pre, later>>

\* The caller is done with the outcome of a run and drops the objects of that
\* call; the runner and its config stay.
Release ==
    /\ pc \in {"returned", "raised"}
    /\ pc' = "idle"
    /\ dicts' = SubSeq(dicts, 1, 2)
    /\ cfgs' = SubSeq(cfgs, 1, 1)
    /\ later' = (later \/ override_config # 0)
    /\ error' = NoError
    /\ input_data' = ""
    /\ evaluation_params' = <<>>
    /\ override_config' = 0
    /\ effective_config' = 0
    /\ trace' = <<>>
    /\ pre' = EmptyHeap
    /\ RunReset
    /\ UNCHANGED <<self, bound>>

\* run is called on the runner; line 70, the merge.
RunCall(inp, params, kind, c) ==
    /\ pc = "idle"
    /\ kind # "new" => c = EmptyConfig
    /\ LET a == PassOverride(Heap, self.config.ref, kind, c)
           h1 == [dicts |-> a.dicts, cfgs |-> a.cfgs]
           m == merge_configs(h1, self.config.ref, a.ref)
       IN  /\ pre' = h1
           /\ override_config' = a.ref
           /\ dicts' = m.dicts
           /\ cfgs' = m.cfgs
           /\ effective_config' = m.ref
    /\ input_data' = inp
    /\ evaluation_params' = params
    /\ pc' = "merged"
    /\ trace' = <<"merge">>
    /\ UNCHANGED <<self, bound, error, later, base_output, result, execCalls,
                   evalCalls, execRet, evalRet, collabErr>>

\* line 71: execute is invoked
ExecuteCall ==
    /\ pc = "merged"
    /\ pc' = "executing"
    /\ execCalls' = Append(execCalls, ExecuteArgs(Heap, input_data, effective_config))
    /\ trace' = Append(trace, "execute")
    /\ UNCHANGED <<self, dicts, cfgs, error, input_data, evaluation_params,
                   override_config, effective_config, base_output, result,
                   evalCalls, execRet, evalRet, collabErr, bound, pre, later>>

\* line 71: execute returns out
ExecuteReturn(out) ==
    /\ pc = "executing"
    /\ ExecuteOverridden(self.executor)
    /\ pc' = "executed"
    /\ execRet' = <<out>>
    /\ base_output' = <<out>>
    /\ trace' = Append(trace, "execute returned")
    /\ UNCHANGED <<self, dicts, cfgs, error, input_data, evaluation_params,
                   override_config, effective_config, result, execCalls,
                   evalCalls, evalRet, collabErr, bound, pre, later>>

\* line 71: execute raises e
ExecuteRaise(e) ==
    /\ pc = "executing"
    /\ IF ExecuteOverridden(self.executor) THEN e \in ExecutorErrors
                                           ELSE e = NotImplementedError
    /\ pc' = OnRaise(e).pc
    /\ error' = OnRaise(e).error
    /\ collabErr' = <<e>>
    /\ trace' = Append(trace, "execute raised")
    /\ UNCHANGED <<self, dicts, cfgs, input_data, evaluation_params,
                   override_config, effective_config, base_output, result,
                   execCalls, evalCalls, execRet, evalRet, bound, pre, later>>

\* lines 73-80: evaluate is invoked
EvaluateCall ==
    /\ pc = "executed"
    /\ pc' = "evaluating"
    /\ evalCalls' = Append(evalCalls,
                           EvaluateArgs(self, Heap, input_data, base_output[1],
                                        effective_config, evaluation_params))
    /\ trace' = Append(trace, "evaluate")
    /\ UNCHANGED <<self, dicts, cfgs, error, input_data, evaluation_params,
                   override_config, effective_config, base_output, result,
                   execCalls, execRet, evalRet, collabErr, bound, pre, later>>

\* lines 73-88: evaluate returns m, run returns the TestResult
EvaluateReturn(m) ==
    /\ pc = "evaluating"
    /\ EvaluateOverridden(self.evaluator)
    /\ pc' = "returned"
    /\ evalRet' = <<m>>
    /\ result' = <<MakeTestResult(self, input_data, m, base_output[1],
                                  effective_config)>>
    /\ trace' = Append(trace, "evaluate returned")
    /\ UNCHANGED <<self, dicts, cfgs, error, input_data, evaluation_params,
                   override_config, effective_config, base_output, execCalls,
                   evalCalls, execRet, collabErr, bound, pre, later>>

\* lines 73-80: evaluate raises e
EvaluateRaise(e) ==
    /\ pc = "evaluating"
    /\ IF EvaluateOverridden(self.evaluator) THEN e \in EvaluatorErrors
                                             ELSE e = NotImplementedError
    /\ pc' = OnRaise(e).pc
    /\ error' = OnRaise(e).error
    /\ collabErr' = <<e>>
    /\ trace' = Append(trace, "evaluate raised")
    /\ UNCHANGED <<self, dicts, cfgs, input_data, evaluation_params,
                   override_config, effective_config, base_output, result,
                   execCalls, evalCalls, execRet, evalRet, bound, pre, later>>

Next ==
    \/ \E executor \in ExecutorArgs, evaluator \in EvaluatorArgs,
          cls \in {"TestConfig", "dict", "NoneType"},
          c \in RunConfigs :
            Construct(executor, evaluator, cls, c)
    \/ \E inp \in Inputs, params \in ParamChoices, kind \in OverrideKinds,
          c \in RunConfigs :
            RunCall(inp, params, kind, c)
    \/ Release
    \/ ExecuteCall
    \/ \E out \in Outputs : ExecuteReturn(out)
    \/ \E e \in ExecutorErrors \cup {NotImplementedError} : ExecuteRaise(e)
    \/ EvaluateCall
    \/ \E m \in EvaluatorOutputs : EvaluateReturn(m)
    \/ \E e \in EvaluatorErrors \cup {NotImplementedError} : EvaluateRaise(e)

Spec == Init /\ [][Next]_vars

---------------------------------------------------------------------------
\* _merge_configs on its own: every base of up to MaxEntries entries, merged
\* once with every override.

DefaultRunner == [executor |-> "EchoExecutor", evaluator |-> "ConstEvaluator",
                  config |-> [cls |-> "TestConfig", ref |-> 1]]

InitMerge ==
    /\ pc = "m_ready"
    /\ self = DefaultRunner
    /\ \E c \in MergeConfigs :
          /\ dicts = NewConfig(EmptyHeap, c).dicts
          /\ cfgs = NewConfig(EmptyHeap, c).cfgs
          /\ bound = <<[self |-> DefaultRunner, base |-> c]>>
    /\ error = NoError
    /\ input_data = ""
    /\ evaluation_params = <<>>
    /\ override_config = 0
    /\ effective_config = 0
    /\ base_output = <<>>
    /\ result = <<>>
    /\ trace = <<>>
    /\ execCalls = <<>>
    /\ evalCalls = <<>>
    /\ execRet = <<>>
    /\ evalRet = <<>>
    /\ collabErr = <<>>
    /\ pre = EmptyHeap
    /\ later = FALSE

\* self._merge_configs(self.config, override)
MergeCall(kind, c) ==
    /\ pc = "m_ready"
    /\ kind # "new" => c = EmptyConfig
    /\ LET a == PassOverride(Heap, self.config.ref, kind, c)
           h1 == [dicts |-> a.dicts, cfgs |-> a.cfgs]
           m == merge_configs(h1, self.config.ref, a.ref)
       IN  /\ pre' = h1
           /\ override_config' = a.ref
           /\ dicts' = m.dicts
           /\ cfgs' = m.cfgs
           /\ effective_config' = m.ref
    /\ pc' = "m_done"
    /\ trace' = <<"merge">>
    /\ UNCHANGED <<self, bound, error, later, input_data, evaluation_params,
                   base_output, result, execCalls, evalCalls, execRet, evalRet,
                   collabErr>>

NextMerge == \E kind \in OverrideKinds, c \in MergeConfigs : MergeCall(kind, c)

SpecMerge == InitMerge /\ [][NextMerge]_vars

---------------------------------------------------------------------------
\* Properties

\* d has exactly the keys of b and o, o's value on o's keys, b's elsewhere.
OverlayOf(d, b, o) ==
    /\ DOMAIN d = DOMAIN b \cup DOMAIN o
    /\ \A k \in DOMAIN o : d[k] = o[k]
    /\ \A k \in DOMAIN b \ DOMAIN o : d[k] = b[k]

InRun == pc \in {"merged", "executing", "executed", "evaluating", "returned", "raised"}

FullTrace == <<"merge", "execute", "execute returned", "evaluate", "evaluate returned">>

\* C1: with an override, the merged executor_config has exactly the union of
\* the base's and the override's executor_config keys, each key of the
\* override with the override's whole value (nested mappings included) and
\* every other key with the base's value; likewise metric_config, from the
\* metric_config of the two alone.
C1_MergeIsShallowOverlay ==
    (pc = "m_done" /\ override_config # 0) =>
        LET b == Contents(pre, self.config.ref)
            o == Contents(pre, override_config)
            r == Contents(Heap, effective_config)
        IN  /\ OverlayOf(r.executor_config, b.executor_config, o.executor_config)
            /\ OverlayOf(r.metric_config, b.metric_config, o.metric_config)

\* a nested mapping of the base replaced by a different nested mapping of the
\* override, while the override's metric_config has a key that stays out of
\* the merged executor_config
C1_Witness ==
    /\ pc = "m_done"
    /\ override_config # 0
    /\ LET b == Contents(pre, self.config.ref)
           o == Contents(pre, override_config)
           r == Contents(Heap, effective_config)
       IN  /\ \E k \in DOMAIN b.executor_config \cap DOMAIN o.executor_config :
                 /\ IsMapping(b.executor_config[k])
                 /\ IsMapping(o.executor_config[k])
                 /\ b.executor_config[k] # o.executor_config[k]
                 /\ r.executor_config[k] = o.executor_config[k]
           /\ \E k \in DOMAIN o.metric_config : k \notin DOMAIN r.executor_config

\* C2: a run without override that returns a TestResult has configs_used with
\* the keys and values of the config bound at construction.
C2_NoOverrideUsesBase ==
    (pc = "returned" /\ override_config = 0) =>
        Contents(Heap, result[1].configs_used) = bound[1].base

C2_Witness ==
    /\ pc = "returned"
    /\ override_config = 0
    /\ bound[1].base # EmptyConfig
    /\ Contents(Heap, result[1].configs_used) = bound[1].base

\* C3: in a run that returns a TestResult, configs_used.executor_config is the
\* object passed to execute and to evaluate as executor_config, and
\* configs_used.metric_config the object passed to evaluate as test_config;
\* with an override they hold the merged contents.
C3_ConfigsUsedArePassed ==
    pc = "returned" =>
        LET used == cfgs[result[1].configs_used]
            b == Contents(pre, self.config.ref)
        IN  /\ Len(execCalls) = 1
            /\ Len(evalCalls) = 1
            /\ execCalls[1].config = used.executor_config
            /\ evalCalls[1].executor_config = used.executor_config
            /\ evalCalls[1].test_config = used.metric_config
            /\ override_config # 0 =>
                  LET o == Contents(pre, override_config)
                  IN  /\ OverlayOf(dicts[used.executor_config],
                                   b.executor_config, o.executor_config)
                      /\ OverlayOf(dicts[used.metric_config],
                                   b.metric_config, o.metric_config)

\* an override that changes the executor_config
C3_Witness ==
    /\ pc = "returned"
    /\ override_config # 0
    /\ Contents(Heap, result[1].configs_used).executor_config
          # Contents(Heap, self.config.ref).executor_config
    /\ dicts[execCalls[1].config]
          = Contents(Heap, result[1].configs_used).executor_config

\* C4: the executor_output of a returned TestResult is the value execute
\* returned in that run.
C4_ExecutorOutputUnmodified ==
    pc = "returned" =>
        /\ Len(execRet) = 1
        /\ result[1].executor_output = execRet[1]

C4_Witness ==
    /\ pc = "returned"
    /\ result[1].executor_output = "ECHO:hello"
    /\ input_data = "hello"

\* C5: when execute or evaluate raises, run ends with that very exception and
\* no TestResult, the step was invoked once, and after a failed execute the
\* evaluator was never invoked.
C5_ErrorsPropagate ==
    collabErr # <<>> =>
        /\ pc = "raised"
        /\ error = collabErr[1]
        /\ result = <<>>
        /\ Len(execCalls) = 1
        /\ \/ /\ trace = <<"merge", "execute", "execute raised">>
              /\ evalCalls = <<>>
           \/ /\ trace = <<"merge", "execute", "execute returned",
                            "evaluate", "evaluate raised">>
              /\ Len(evalCalls) = 1

C5_Witness ==
    /\ pc = "raised"
    /\ collabErr = <<[kind |-> "TimeoutError", msg |-> "model endpoint timed out"]>>
    /\ error.kind = "TimeoutError"
    /\ evalCalls = <<>>

C5_EvaluateFailureReached ==
    /\ pc = "raised"
    /\ collabErr = <<[kind |-> "KeyError", msg |-> "reference"]>>
    /\ error.kind = "KeyError"
    /\ Len(evalCalls) = 1

\* C6: a merge with an override leaves every object the caller passed as it
\* was and returns a TestConfig that is a new object, as are its two
\* mappings; without override nothing is changed either.
C6_MergeAllocatesAndPreserves ==
    pc = "m_done" =>
        /\ SubSeq(dicts, 1, Len(pre.dicts)) = pre.dicts
        /\ SubSeq(cfgs, 1, Len(pre.cfgs)) = pre.cfgs
        /\ Contents(Heap, self.config.ref) = bound[1].base
        /\ override_config # 0 =>
              /\ effective_config \notin 1..Len(pre.cfgs)
              /\ cfgs[effective_config].executor_config \notin 1..Len(pre.dicts)
              /\ cfgs[effective_config].metric_config \notin 1..Len(pre.dicts)
              /\ cfgs[effective_config].executor_config
                    # cfgs[effective_config].metric_config

\* a merge whose result differs from the base and from the override
C6_Witness ==
    /\ pc = "m_done"
    /\ override_config \notin {0, self.config.ref}
    /\ Contents(Heap, effective_config) # Contents(Heap, self.config.ref)
    /\ Contents(Heap, effective_config) # Contents(Heap, override_config)
    /\ Contents(Heap, self.config.ref) = bound[1].base

\* C7: through any sequence of runs the runner keeps the executor, evaluator
\* and config of its construction, the config keeps its contents, and the
\* effective config of a run is the construction-time config overlaid with
\* that run's override.
C7_RunnerIsStateless ==
    pc \in {"idle"} \cup {"merged", "executing", "executed", "evaluating",
                          "returned", "raised"} =>
        /\ self = bound[1].self
        /\ Contents(Heap, self.config.ref) = bound[1].base
        /\ InRun =>
              LET e == Contents(Heap, effective_config)
              IN  IF override_config = 0
                  THEN e = bound[1].base
                  ELSE LET o == Contents(pre, override_config)
                       IN  /\ OverlayOf(e.executor_config,
                                        bound[1].base.executor_config,
                                        o.executor_config)
                           /\ OverlayOf(e.metric_config,
                                        bound[1].base.metric_config,
                                        o.metric_config)

\* a run without override, after an earlier run with one
C7_Witness ==
    /\ later
    /\ pc \in {"returned", "raised"}
    /\ override_config = 0
    /\ bound[1].base # EmptyConfig
    /\ Contents(Heap, effective_config) = bound[1].base

\* C8: construction succeeds exactly when the executor is a
\* PromptExecutorBase, the evaluator a MetricEvaluatorBase and the config a
\* TestConfig; otherwise it raises ValueError and the caller has no runner, so
\* every run is on a runner with a valid binding.
C8_ConstructionValidates ==
    LET valid == /\ self.executor \in {"EchoExecutor", "PromptExecutorBase"}
                 /\ self.evaluator \in {"ConstEvaluator", "MetricEvaluatorBase"}
                 /\ self.config.cls = "TestConfig"
    IN  pc # "new" =>
            /\ (pc = "rejected") <=> ~valid
            /\ pc = "rejected" => (error.kind = "ValueError" /\ bound = <<>>)
            /\ pc # "rejected" => bound # <<>>

\* only the config is of the wrong class
C8_Witness ==
    /\ pc = "rejected"
    /\ self.executor = "EchoExecutor"
    /\ self.evaluator = "ConstEvaluator"
    /\ self.config.cls = "dict"
    /\ error.kind = "ValueError"

C8_AcceptedReached ==
    /\ pc = "idle"
    /\ self.executor = "PromptExecutorBase"
    /\ self.config.cls = "TestConfig"

\* C9: the metric_output of every returned TestResult has a score between 0
\* and 1 (0 and 10 tenths).
C9_ScoreInUnitInterval ==
    pc = "returned" =>
        (0 <= result[1].metric_output.score /\ result[1].metric_output.score <= 10)

\* C10: a run that returns went merge, execute, evaluate, each once and in
\* that order; evaluate got the bound executor, the run's input_data and what
\* execute returned, and metric_output is what evaluate returned.  Before
\* that the run is at a prefix of this sequence.
C10_SequentialPipeline ==
    /\ (InRun /\ pc # "raised") =>
           /\ Len(trace) <= Len(FullTrace)
           /\ trace = SubSeq(FullTrace, 1, Len(trace))
    /\ pc = "returned" =>
           /\ trace = FullTrace
           /\ Len(execCalls) = 1
           /\ Len(evalCalls) = 1
           /\ execCalls[1].input_data = input_data
           /\ evalCalls[1].executor = bound[1].self.executor
           /\ evalCalls[1].input_data = input_data
           /\ evalCalls[1].base_output = execRet[1]
           /\ result[1].metric_output = evalRet[1]

C10_Witness ==
    /\ pc = "returned"
    /\ trace = FullTrace
    /\ evalCalls[1].input_data = "world"
    /\ evalCalls[1].base_output = "ECHO:world"
    /\ result[1].metric_output.status = "passed"

====
